---- MODULE Spec2Model ----
(***************************************************************************)
(* GoPro Plus Cloud Downloader (src/main.py): the synchronization engine.  *)
(*                                                                         *)
(* A run of main() pages through the remote media listing, groups every    *)
(* page by capture day, decides per group whether to download the day's    *)
(* archive and records the downloaded ids in the TinyDB ledger.            *)
(*                                                                         *)
(* The remote library is a sequence of media; the item at position i has   *)
(* id i and the capture timestamp remote[i] = <<day, time of day>>.  Days  *)
(* are integers whose order is the order of the ISO date strings.  The     *)
(* fields filename, file_extension, file_size and type of an item are only *)
(* printed or fed to the progress bar and are left out.                    *)
(***************************************************************************)
EXTENDS Integers, Sequences, FiniteSets, TLC

\* ------------------------------------------------------------------ bounds
NumDays == 2          \* capture days present in the remote library
MaxPages == 4         \* the library fills up to this many pages of per_page items
MaxRuns == 2          \* invocations of the program against the same library
MaxFailures == 1      \* non-200 responses, interrupts and errors in one behaviour
MaxItems == 3         \* media of a library given item by item
MaxExisting == 2      \* highest counter of an archive present before the first run

\* ------------------------------------------------------- program constants
DefaultPerPage == 30  \* search_media(..., per_page: int = 30)
HTTP_OK == 200
HTTP_UNAUTHORIZED == 401
HTTP_ERROR == 500     \* stands for every status other than 200 and 401

Days == 1..NumDays
PerPageArgs == {2, DefaultPerPage, DefaultPerPage + 1}     \* values of --per-page
ListingStatuses == {HTTP_OK, HTTP_UNAUTHORIZED, HTTP_ERROR}
ArchiveStatuses == {HTTP_OK, HTTP_ERROR}

VARIABLES
    remote,       \* the remote library: Seq of captured_at = <<day, time>>
    per_page,     \* arguments.per_page
    db,           \* TinyDB table: Seq of [date, ids], ids a list
    files,        \* archives present in download_dir: set of <<day, counter>>
    run,          \* number of invocations of main() started so far
    pc,           \* "idle" | "cohorts" | "returned" | "no_media" | "interrupted"
                  \* | "crashed"
    page,         \* page whose grouped_data is being processed
    total_pages,  \* _pages['total_pages'] of the first response
    cohorts,      \* the items of grouped_data not yet iterated over
    grouped,      \* history: grouped_data as built from the page
    requested,    \* history: listing requests of this run, in order
    last,         \* history: the last iteration of the loop of download_by_date
    allOK,        \* history: every request of this run returned 200 so far
    prevOK,       \* history: the previous run returned with every request 200
    dbStart,      \* history: db when this run started
    decided,      \* history: day -> decisions taken in this run
    fetched,      \* history: day -> archive requests issued in this run
    failedNow,    \* history: <<page, day>> whose archive request failed, this run
    failedPrev,   \* history: the same, of the previous run
    failures      \* history: non-200 responses and interrupts so far

vars == <<remote, per_page, db, files, run, pc, page, total_pages, cohorts,
          grouped, requested, last, allOK, prevOK, dbStart, decided, fetched,
          failedNow, failedPrev, failures>>

\* ----------------------------------------------------------------- helpers
Range(s) == {s[i] : i \in DOMAIN s}

RECURSIVE SetToSeq(_)
\* list(set(...)): a list of the elements without repetition.  Python leaves
\* the order open; the program only reads the length and the elements.
SetToSeq(S) ==
    IF S = {} THEN <<>>
    ELSE LET x == CHOOSE y \in S : TRUE IN <<x>> \o SetToSeq(S \ {x})

NoDuplicates(s) == \A i, j \in DOMAIN s : s[i] = s[j] => i = j

\* ------------------------------------------------ remote listing endpoint
\* The media at position i of the library.
RemoteItem(i) == [id |-> i, captured_at |-> remote[i]]

\* Pagination metadata: the number of pages of size pp.
TotalPages(pp) == (Len(remote) + pp - 1) \div pp

\* The media of page p when pages hold pp items.
PageMedia(p, pp) ==
    LET lo == (p - 1) * pp + 1
        hi == IF p * pp < Len(remote) THEN p * pp ELSE Len(remote)
    IN  IF hi < lo THEN <<>> ELSE [i \in 1..(hi - lo + 1) |-> RemoteItem(lo + i - 1)]

\* search_media: None (ok = FALSE) on 401 and on every other non-200 status,
\* the decoded body on 200.
\* Variant: the body is decoded and returned whatever the status.
search_media_AnyStatus(p, pp, status) ==
    [ok |-> TRUE, media |-> PageMedia(p, pp), total_pages |-> TotalPages(pp)]

search_media(p, pp, status) ==
    IF status = HTTP_UNAUTHORIZED
    THEN [ok |-> FALSE, media |-> <<>>, total_pages |-> 0]
    ELSE IF status = HTTP_OK
    THEN [ok |-> TRUE, media |-> PageMedia(p, pp), total_pages |-> TotalPages(pp)]
    ELSE [ok |-> FALSE, media |-> <<>>, total_pages |-> 0]

\* ------------------------------------------------------------ ledger store
\* db.search(MediaQuery.date == captured_at)
db_search(table, captured_at) == SelectSeq(table, LAMBDA r : r.date = captured_at)

get_ids_by_date(table, captured_at) ==
    LET result == db_search(table, captured_at)
    IN  IF result # <<>> THEN result[1].ids ELSE <<>>

\* Variant: the update keeps the concatenation instead of list(set(...)).
insert_ids_by_date_NoDedup(table, captured_at, ids_list) ==
    LET existing_record == db_search(table, captured_at)
    IN  IF existing_record # <<>>
        THEN [i \in DOMAIN table |->
                IF table[i].date = captured_at
                THEN [table[i] EXCEPT !.ids = existing_record[1].ids \o ids_list]
                ELSE table[i]]
        ELSE Append(table, [date |-> captured_at, ids |-> ids_list])

\* Variant: the update stores the new ids in place of the merged ones.
insert_ids_by_date_Replace(table, captured_at, ids_list) ==
    LET existing_record == db_search(table, captured_at)
    IN  IF existing_record # <<>>
        THEN [i \in DOMAIN table |->
                IF table[i].date = captured_at
                THEN [table[i] EXCEPT !.ids = ids_list]
                ELSE table[i]]
        ELSE Append(table, [date |-> captured_at, ids |-> ids_list])

\* Variant: a record is inserted whether or not the day has one.
insert_ids_by_date_AlwaysInsert(table, captured_at, ids_list) ==
    Append(table, [date |-> captured_at, ids |-> ids_list])

insert_ids_by_date(table, captured_at, ids_list) ==
    LET existing_record == db_search(table, captured_at)
    IN  IF existing_record # <<>>
        THEN LET current_ids == existing_record[1].ids
                 new_ids == SetToSeq(Range(current_ids \o ids_list))
             IN  [i \in DOMAIN table |->
                    IF table[i].date = captured_at
                    THEN [table[i] EXCEPT !.ids = new_ids]
                    ELSE table[i]]
        ELSE Append(table, [date |-> captured_at, ids |-> ids_list])

\* search_id: is the id recorded under any day
search_id(table, media_id) ==
    \E i \in DOMAIN table : media_id \in Range(table[i].ids)

\* ----------------------------------------------------------- cohort builder
\* item['captured_at'].split('T')[0]
CapturedDay(captured_at) == captured_at[1]

needed_data(media) ==
    [i \in DOMAIN media |->
        [id |-> media[i].id, captured_at |-> media[i].captured_at,
         captured_day |-> CapturedDay(media[i].captured_at)]]

\* Variant: a sort that puts an item before the earlier items of its day.
RECURSIVE needed_data_sorted_Unstable(_)
needed_data_sorted_Unstable(s) ==
    IF s = <<>> THEN <<>>
    ELSE LET n == Len(s)
             x == s[n]
             front == needed_data_sorted_Unstable(SubSeq(s, 1, n - 1))
         IN  SelectSeq(front, LAMBDA y : y.captured_day < x.captured_day)
             \o <<x>>
             \o SelectSeq(front, LAMBDA y : y.captured_day >= x.captured_day)

\* Variant: the list is handed to groupby as it came, without sorting.
needed_data_sorted_NoSort(s) == s

\* sorted(needed_data, key=itemgetter('captured_day')): a stable sort.
RECURSIVE needed_data_sorted(_)
needed_data_sorted(s) ==
    IF s = <<>> THEN <<>>
    ELSE LET n == Len(s)
             x == s[n]
             front == needed_data_sorted(SubSeq(s, 1, n - 1))
         IN  SelectSeq(front, LAMBDA y : y.captured_day <= x.captured_day)
             \o <<x>>
             \o SelectSeq(front, LAMBDA y : y.captured_day > x.captured_day)

\* Length of the leading run of items of s whose key is k.
RECURSIVE RunLength(_, _)
RunLength(s, k) ==
    IF s = <<>> \/ s[1].captured_day # k THEN 0
    ELSE 1 + RunLength(Tail(s), k)

\* groupby over the sorted list, collected into a dict: one entry per run of
\* equal keys, in the order of the runs.
RECURSIVE grouped_data(_)
grouped_data(s) ==
    IF s = <<>> THEN <<>>
    ELSE LET k == s[1].captured_day
             n == RunLength(s, k)
         IN  <<[captured_day |-> k, items |-> SubSeq(s, 1, n)]>>
             \o grouped_data(SubSeq(s, n + 1, Len(s)))

Cohorts(media) == grouped_data(needed_data_sorted(needed_data(media)))

\* media_ids = [item['id'] for item in data]
media_ids(data) == [i \in DOMAIN data |-> data[i].id]

\* ----------------------------------------------------------- archive paths
RECURSIVE ZipCounter(_, _)
ZipCounter(captured_day, counter) ==
    IF <<captured_day, counter>> \in files
    THEN ZipCounter(captured_day, counter + 1)
    ELSE counter

\* Variant: the name with counter 1, without the loop over existing files.
get_zip_filename_First(captured_day) == <<captured_day, 1>>

get_zip_filename(captured_day) == <<captured_day, ZipCounter(captured_day, 1)>>

\* ----------------------------------------------------- reconciliation rule
\* len(db_ids) == 0 or len(db_ids) != len(items)  ->  download
\* Variant: download only while the ledger holds fewer ids than the group.
NeedsFetch_Fewer(db_ids, items) == Len(db_ids) = 0 \/ Len(db_ids) < Len(items)

NeedsFetch(db_ids, items) == Len(db_ids) = 0 \/ Len(db_ids) # Len(items)

\* --------------------------------------------------------- archive fetcher
\* download_media: on 200 the body is streamed into zip_name and the ids are
\* recorded; on any other status nothing is written.  The result is the
\* ledger and the download directory after the call.
\* Variant: the ids are recorded whatever the status.
download_media_RecordAlways(zip_name, data, status) ==
    [files |-> IF status = HTTP_OK THEN files \cup {zip_name} ELSE files,
     db    |-> insert_ids_by_date(db, data[1].captured_day, media_ids(data))]

download_media(zip_name, data, status) ==
    IF status = HTTP_OK
    THEN [files |-> files \cup {zip_name},
          db    |-> insert_ids_by_date(db, data[1].captured_day, media_ids(data))]
    ELSE [files |-> files, db |-> db]

\* download_media when the stream of a 200 response ends early, by an
\* exception out of iter_content or by KeyboardInterrupt: the archive was
\* opened for writing, insert_ids_by_date was not reached.
\* Variant: the ids are recorded before the body is written.
download_media_cut_RecordFirst(zip_name, data) ==
    [files |-> files \cup {zip_name},
     db    |-> insert_ids_by_date(db, data[1].captured_day, media_ids(data))]

download_media_cut(zip_name, data) ==
    [files |-> files \cup {zip_name}, db |-> db]

\* download_media when db.update or db.insert raises: the archive is
\* complete, the table is as before.
download_media_write_error(zip_name, data) ==
    [files |-> files \cup {zip_name}, db |-> db]

\* ------------------------------------------------------------ initial state
\* A library of n media, the most recent day first: the media up to position
\* cuts[1] are of day NumDays, those up to cuts[2] of the day before, ...
Library(n, cuts) ==
    [i \in 1..n |->
        <<NumDays - Cardinality({j \in DOMAIN cuts : cuts[j] < i}), i % 2>>]

\* Library sizes: whole pages of pp items.
LibrarySizes(pp) == {k * pp : k \in 0..MaxPages}

\* A day ends with the last item of a page or with the first of the next.
DayEnds(pp, n) == {c \in {k * pp + r : k \in 0..MaxPages, r \in {0, 1}} : c <= n}

\* A library given item by item: the days in any order.
SmallLibraries ==
    UNION {{[i \in 1..n |-> <<f[i], i % 2>>] : f \in [1..n -> Days]} : n \in 0..MaxItems}

NoLast == [kind |-> "none", page |-> 0, day |-> 0, ids |-> <<>>,
           db_ids |-> <<>>, status |-> 0, zip_name |-> <<0, 0>>]

\* The state before the first run: an empty table and either a library of
\* whole pages and an empty download directory, or a library of a few media
\* on one page and a download directory with archives of earlier use.
Init ==
    /\ \/ /\ per_page \in PerPageArgs
          /\ \E n \in LibrarySizes(per_page) :
               \E cuts \in [1..(NumDays - 1) -> DayEnds(per_page, n)] :
                  /\ \A j, k \in DOMAIN cuts : j <= k => cuts[j] <= cuts[k]
                  /\ remote = Library(n, cuts)
          /\ files = {}
       \/ /\ per_page = DefaultPerPage
          /\ remote \in SmallLibraries
          /\ files \in SUBSET ({NumDays} \X (1..MaxExisting))
    /\ db = <<>>
    /\ run = 0
    /\ pc = "idle"
    /\ page = 0
    /\ total_pages = 0
    /\ cohorts = <<>>
    /\ grouped = <<>>
    /\ requested = <<>>
    /\ last = NoLast
    /\ allOK = TRUE
    /\ prevOK = FALSE
    /\ dbStart = <<>>
    /\ decided = [d \in Days |-> 0]
    /\ fetched = [d \in Days |-> 0]
    /\ failedNow = {}
    /\ failedPrev = {}
    /\ failures = 0

Running == pc = "cohorts"

\* ------------------------------------------------------------------ actions
\* main(), up to the first download_by_date: the first listing request, with
\* the configured page size.  Without data the run is over.
MainFirstPage ==
    \E status \in ListingStatuses :
        LET data == search_media(1, per_page, status) IN
        /\ ~Running
        /\ run < MaxRuns
        /\ status # HTTP_OK => failures < MaxFailures
        /\ failures' = (IF status # HTTP_OK THEN failures + 1 ELSE failures)
        /\ run' = run + 1
        /\ requested' = <<[page |-> 1, per_page |-> per_page, status |-> status,
                           items |-> Len(data.media)]>>
        /\ page' = 1
        /\ IF ~data.ok
           THEN /\ pc' = "no_media"
                /\ total_pages' = 0
                /\ cohorts' = <<>>
           ELSE /\ pc' = "cohorts"
                /\ total_pages' = data.total_pages
                /\ cohorts' = Cohorts(data.media)
        /\ grouped' = cohorts'
        /\ last' = NoLast
        /\ allOK' = (status = HTTP_OK)
        /\ prevOK' = (pc = "returned" /\ allOK)
        /\ dbStart' = db
        /\ decided' = [d \in Days |-> 0]
        /\ fetched' = [d \in Days |-> 0]
        /\ failedNow' = {}
        /\ failedPrev' = failedNow
        /\ UNCHANGED <<remote, per_page, db, files>>

\* One iteration of the loop of download_by_date whose group is already in
\* the ledger with as many ids as the group has items.
SkipCohort ==
    /\ Running
    /\ cohorts # <<>>
    /\ LET captured_day == cohorts[1].captured_day
           items == cohorts[1].items
           zip_name == get_zip_filename(captured_day)
           db_ids == get_ids_by_date(db, captured_day)
       IN  /\ ~NeedsFetch(db_ids, items)
           /\ last' = [kind |-> "skip", page |-> page, day |-> captured_day,
                       ids |-> media_ids(items), db_ids |-> db_ids,
                       status |-> 0, zip_name |-> zip_name]
           /\ decided' = [decided EXCEPT ![captured_day] = @ + 1]
    /\ cohorts' = Tail(cohorts)
    /\ UNCHANGED <<remote, per_page, db, files, run, pc, page, total_pages,
                   grouped, requested, allOK, prevOK, dbStart, fetched,
                   failedNow, failedPrev, failures>>

\* One iteration of the loop of download_by_date that calls download_media;
\* the archive endpoint answers with status.
DownloadCohort ==
    \E status \in ArchiveStatuses :
        /\ Running
        /\ cohorts # <<>>
        /\ status # HTTP_OK => failures < MaxFailures
        /\ failures' = (IF status # HTTP_OK THEN failures + 1 ELSE failures)
        /\ LET captured_day == cohorts[1].captured_day
               items == cohorts[1].items
               zip_name == get_zip_filename(captured_day)
               db_ids == get_ids_by_date(db, captured_day)
               after == download_media(zip_name, items, status)
           IN  /\ NeedsFetch(db_ids, items)
               /\ db' = after.db
               /\ files' = after.files
               /\ last' = [kind |-> "download", page |-> page, day |-> captured_day,
                           ids |-> media_ids(items), db_ids |-> db_ids,
                           status |-> status, zip_name |-> zip_name]
               /\ decided' = [decided EXCEPT ![captured_day] = @ + 1]
               /\ fetched' = [fetched EXCEPT ![captured_day] = @ + 1]
               /\ failedNow' = IF status = HTTP_OK THEN failedNow
                               ELSE failedNow \cup {<<page, captured_day>>}
               /\ allOK' = (allOK /\ status = HTTP_OK)
        /\ cohorts' = Tail(cohorts)
        /\ UNCHANGED <<remote, per_page, run, pc, page, total_pages, grouped,
                       requested, prevOK, dbStart, failedPrev>>

\* download_media is cut short while it streams a 200 response into the
\* archive.  KeyboardInterrupt is caught in __main__, which exits; any other
\* exception is not caught and ends the process as well.
InterruptDownload ==
    \E cause \in {"interrupt", "stream_error"} :
        /\ Running
        /\ cohorts # <<>>
        /\ failures < MaxFailures
        /\ failures' = failures + 1
        /\ LET captured_day == cohorts[1].captured_day
               items == cohorts[1].items
               zip_name == get_zip_filename(captured_day)
               db_ids == get_ids_by_date(db, captured_day)
               after == download_media_cut(zip_name, items)
           IN  /\ NeedsFetch(db_ids, items)
               /\ db' = after.db
               /\ files' = after.files
               /\ last' = [kind |-> cause, page |-> page, day |-> captured_day,
                           ids |-> media_ids(items), db_ids |-> db_ids,
                           status |-> HTTP_OK, zip_name |-> zip_name]
               /\ decided' = [decided EXCEPT ![captured_day] = @ + 1]
               /\ fetched' = [fetched EXCEPT ![captured_day] = @ + 1]
        /\ pc' = (IF cause = "interrupt" THEN "interrupted" ELSE "crashed")
        /\ cohorts' = <<>>
        /\ allOK' = FALSE
        /\ UNCHANGED <<remote, per_page, run, page, total_pages, grouped,
                       requested, prevOK, dbStart, failedNow, failedPrev>>

\* The archive was downloaded and insert_ids_by_date raises while it writes
\* the table.  Nothing between insert_ids_by_date and __main__ catches the
\* exception: the process ends.
LedgerWriteError ==
    /\ Running
    /\ cohorts # <<>>
    /\ failures < MaxFailures
    /\ failures' = failures + 1
    /\ LET captured_day == cohorts[1].captured_day
           items == cohorts[1].items
           zip_name == get_zip_filename(captured_day)
           db_ids == get_ids_by_date(db, captured_day)
           after == download_media_write_error(zip_name, items)
       IN  /\ NeedsFetch(db_ids, items)
           /\ db' = after.db
           /\ files' = after.files
           /\ last' = [kind |-> "write_error", page |-> page, day |-> captured_day,
                       ids |-> media_ids(items), db_ids |-> db_ids,
                       status |-> HTTP_OK, zip_name |-> zip_name]
           /\ decided' = [decided EXCEPT ![captured_day] = @ + 1]
           /\ fetched' = [fetched EXCEPT ![captured_day] = @ + 1]
    /\ pc' = "crashed"
    /\ cohorts' = <<>>
    /\ allOK' = FALSE
    /\ UNCHANGED <<remote, per_page, run, page, total_pages, grouped,
                   requested, prevOK, dbStart, failedNow, failedPrev>>

\* The loop  for page in range(2, _pages['total_pages'])  takes its next
\* page: the listing request is made without per_page.
MainNextPage ==
    \E status \in ListingStatuses :
        LET next == page + 1
            data == search_media(next, DefaultPerPage, status)
        IN
        /\ Running
        /\ cohorts = <<>>
        /\ next < total_pages
        /\ status # HTTP_OK => failures < MaxFailures
        /\ failures' = (IF status # HTTP_OK THEN failures + 1 ELSE failures)
        /\ page' = next
        /\ requested' = Append(requested, [page |-> next,
                                           per_page |-> DefaultPerPage,
                                           status |-> status,
                                           items |-> Len(data.media)])
        /\ IF ~data.ok
           THEN /\ pc' = "no_media"
                /\ cohorts' = <<>>
           ELSE /\ pc' = "cohorts"
                /\ cohorts' = Cohorts(data.media)
        /\ grouped' = cohorts'
        /\ allOK' = (allOK /\ status = HTTP_OK)
        /\ UNCHANGED <<remote, per_page, db, files, run, total_pages, last,
                       prevOK, dbStart, decided, fetched, failedNow, failedPrev>>

\* The range is exhausted: main() returns.
MainReturn ==
    /\ Running
    /\ cohorts = <<>>
    /\ ~(page + 1 < total_pages)
    /\ pc' = "returned"
    /\ UNCHANGED <<remote, per_page, db, files, run, page, total_pages, cohorts,
                   grouped, requested, last, allOK, prevOK, dbStart, decided,
                   fetched, failedNow, failedPrev, failures>>

Next ==
    \/ MainFirstPage
    \/ SkipCohort
    \/ DownloadCohort
    \/ InterruptDownload
    \/ LedgerWriteError
    \/ MainNextPage
    \/ MainReturn

Spec == Init /\ [][Next]_vars

\* ------------------------------------------------------------ type invariant
TypeOK ==
    /\ per_page \in PerPageArgs
    /\ run \in 0..MaxRuns
    /\ failures \in 0..MaxFailures
    /\ pc \in {"idle", "cohorts", "returned", "no_media", "interrupted", "crashed"}
    /\ \A i \in DOMAIN db : db[i].date \in Days
    /\ \A d \in Days : decided[d] >= fetched[d]

\* ========================================================== properties
LedgerIds(table, d) == Range(get_ids_by_date(table, d))

HasEntry(table, d) == db_search(table, d) # <<>>

\* The ids of all media of day d in the remote library.
AllIdsOfDay(d) == {i \in DOMAIN remote : CapturedDay(remote[i]) = d}

RequestedPages == [i \in DOMAIN requested |-> requested[i].page]

\* C1: a run that starts from an empty ledger and gets 200 for every request
\* ends with a ledger holding, for every day, exactly the ids of all media of
\* that day in the listing.
C1_LedgerHoldsWholeListing ==
    (pc = "returned" /\ allOK /\ dbStart = <<>>)
        => \A d \in Days : LedgerIds(db, d) = AllIdsOfDay(d)

\* C2: a run whose listing requests all succeed has requested the pages
\* 1, 2, ..., total_pages, each once and in this order.
C2_EveryPageRequestedOnce ==
    (pc = "returned" /\ total_pages >= 1)
        => RequestedPages = [i \in 1..total_pages |-> i]

\* C3: within one run every day gets at most one decision and at most one
\* archive request, and the request carries all media of the day.
C3_OneCohortPerDay ==
    /\ \A d \in Days : decided[d] <= 1 /\ fetched[d] <= 1
    /\ last.kind \in {"download", "interrupt"}
           => Range(last.ids) = AllIdsOfDay(last.day)

\* C4: when a run that got 200 for every request is followed by a second such
\* run, the ids the ledger holds for every day after the second run are
\* those it held after the first.
C4_SecondRunKeepsLedger ==
    (pc = "returned" /\ allOK /\ prevOK)
        => \A d \in Days : LedgerIds(db, d) = LedgerIds(dbStart, d)

\* C5: the run that follows a run in which every request returned 200 issues
\* no archive request.
C5_SecondRunSkipsAll ==
    prevOK => \A d \in Days : fetched[d] = 0

\* C6: a group is skipped exactly when the ledger holds a nonzero number of
\* ids for its day and that number equals the number of items of the group.
C6_SkipRule ==
    last.kind # "none"
        => ((last.kind = "skip")
              <=> (Len(last.db_ids) # 0 /\ Len(last.db_ids) = Len(last.ids)))

C6_Witness ==
    /\ last.kind = "skip"
    /\ Len(last.db_ids) = Len(last.ids)
    /\ Len(last.ids) > 0

\* C7: after the ids of a group were merged, the entry of the day holds
\* exactly the union of its previous ids and the ids of the group, none twice.
C7_MergeIsUnion ==
    (last.kind = "download" /\ last.status = HTTP_OK)
        => /\ LedgerIds(db, last.day) = Range(last.db_ids) \cup Range(last.ids)
           /\ NoDuplicates(get_ids_by_date(db, last.day))

\* {a,b} merged with {b,c}
C7_Witness ==
    /\ last.kind = "download"
    /\ last.status = HTTP_OK
    /\ Range(last.db_ids) \cap Range(last.ids) # {}
    /\ Range(last.db_ids) \ Range(last.ids) # {}
    /\ Range(last.ids) \ Range(last.db_ids) # {}

\* C8: an archive request answered with a non-200 status leaves the ledger
\* as it was, and the run stays in the loop with the next group.
C8_FailedFetchKeepsLedger ==
    [][(last' # last /\ last'.kind = "download" /\ last'.status # HTTP_OK)
          => /\ db' = db
             /\ pc' = "cohorts"
             /\ page' = page
             /\ cohorts' = Tail(cohorts)]_vars

\* a later group of the run was downloaded after an earlier one had failed
C8_Witness ==
    /\ failedNow # {}
    /\ last.kind = "download"
    /\ last.status = HTTP_OK
    /\ <<last.page, last.day>> \notin failedNow

\* C9: a group whose archive request failed in the previous run is not
\* skipped in this run.
C9_FailedCohortFetchedAgain ==
    last.kind = "skip" => <<last.page, last.day>> \notin failedPrev

\* C10: no step removes an id from the entry of a day, or the entry itself.
C10_LedgerMonotonic ==
    [][\A d \in Days :
          /\ LedgerIds(db, d) \subseteq LedgerIds(db', d)
          /\ HasEntry(db, d) => HasEntry(db', d)]_vars

\* ids were merged into an entry that held ids the group does not have
C10_Witness ==
    /\ last.kind = "download"
    /\ last.status = HTTP_OK
    /\ Range(last.db_ids) \ Range(last.ids) # {}
    /\ LedgerIds(db, last.day) # Range(last.ids)

\* C11: the archive path chosen for a group is a path at which no file
\* exists when it is chosen, and a step writes no file but the one at the
\* chosen path: no archive that existed is overwritten or removed.
C11_ArchivePathUnused ==
    [][/\ (last' # last /\ last'.kind # "none") => last'.zip_name \notin files
       /\ files \subseteq files'
       /\ files' \ files \subseteq {last'.zip_name}]_vars

\* an archive was written under a counter above 1 because lower ones existed
C11_Witness ==
    /\ last.kind = "download"
    /\ last.status = HTTP_OK
    /\ last.zip_name \in files
    /\ last.zip_name[2] > 1
    /\ \A c \in 1..(last.zip_name[2] - 1) : <<last.day, c>> \in files

\* C12: the ledger changes only in a step in which the archive request
\* returned 200 and the archive was written to the end; a download cut short
\* by a stream error or by the operator leaves the ledger as it was before
\* the download began.
C12_MergeAfterWrite ==
    [][/\ (last' # last /\ last'.kind \in {"interrupt", "stream_error"})
            => db' = db
       /\ db' # db => /\ last'.kind = "download"
                      /\ last'.status = HTTP_OK
                      /\ last'.zip_name \in files']_vars

\* a download was cut short: the archive exists, the ledger holds none of
\* the ids of the group
C12_Witness ==
    /\ last.kind \in {"interrupt", "stream_error"}
    /\ last.zip_name \in files
    /\ Range(last.ids) \cap LedgerIds(db, last.day) = {}
    /\ db = dbStart

\* C13: a listing request answered with 401 or another non-200 status ends
\* the run at once: the ledger and the archives stay as they were, no group
\* is left to process, and from then on the run requests no page, issues
\* no archive request and does not change the ledger.
C13_ListingFailureAborts ==
    [][/\ ((run' # run \/ Len(requested') > Len(requested))
              /\ requested'[Len(requested')].status # HTTP_OK)
            => /\ pc' = "no_media"
               /\ cohorts' = <<>>
               /\ db' = db
               /\ files' = files
       /\ (pc = "no_media" /\ run' = run)
            => /\ requested' = requested
               /\ fetched' = fetched
               /\ db' = db]_vars

\* the request for a later page failed after a download of the run
C13_Witness ==
    /\ pc = "no_media"
    /\ Len(requested) >= 2
    /\ requested[Len(requested)].status # HTTP_OK
    /\ db # dbStart

\* C14: a listing request answered with 200 and an empty media list is the
\* last request of its run, and the run ends there as one without media.
C14_EmptyResultAborts ==
    \A i \in DOMAIN requested :
        (requested[i].status = HTTP_OK /\ requested[i].items = 0)
            => (i = Len(requested) /\ pc = "no_media")

\* C15: every listing request of a run asks for pages of the configured
\* size.
C15_SamePageSize ==
    \A i \in DOMAIN requested : requested[i].per_page = per_page

\* C16: when the write of the ledger fails after an archive was downloaded,
\* the run stays in the loop and goes on with the next group.
C16_WriteErrorConfined ==
    [][(last' # last /\ last'.kind = "write_error")
          => (pc' = "cohorts" /\ cohorts' = Tail(cohorts))]_vars

\* The media of the page the groups were built from.
CurrentMedia ==
    IF requested = <<>> \/ requested[Len(requested)].status # HTTP_OK
    THEN <<>>
    ELSE PageMedia(page, requested[Len(requested)].per_page)

\* C17: the groups built from a page have distinct days, every item of the
\* page is in the group of the date part of its capture timestamp, and a
\* group holds exactly the items of its day, once each, in page order.
C17_CohortsPartitionPage ==
    LET media == CurrentMedia IN
    /\ \A c \in DOMAIN grouped :
          /\ grouped[c].items # <<>>
          /\ media_ids(grouped[c].items)
               = media_ids(SelectSeq(media,
                     LAMBDA m : CapturedDay(m.captured_at) = grouped[c].captured_day))
    /\ \A c1, c2 \in DOMAIN grouped :
          grouped[c1].captured_day = grouped[c2].captured_day => c1 = c2
    /\ \A i \in DOMAIN media :
          \E c \in DOMAIN grouped :
             grouped[c].captured_day = CapturedDay(media[i].captured_at)

\* a page on which an item of another day lies between two items of a day
C17_Witness ==
    /\ Len(grouped) >= 2
    /\ \E i, j, k \in DOMAIN CurrentMedia :
          /\ i < j /\ j < k
          /\ CapturedDay(CurrentMedia[i].captured_at) = CapturedDay(CurrentMedia[k].captured_at)
          /\ CapturedDay(CurrentMedia[j].captured_at) # CapturedDay(CurrentMedia[i].captured_at)

\* C18: the ledger never holds two records of one capture day; a merge
\* changes the record of the day it is for and adds a record only when the
\* day had none.
C18_OneRecordPerDay ==
    /\ \A d \in Days : Len(db_search(db, d)) <= 1
    /\ \A i \in DOMAIN db : db[i].date \in Days
    /\ (last.kind = "download" /\ last.status = HTTP_OK)
          => Len(db_search(db, last.day)) = 1

\* a merge into a day that already had a record
C18_Witness ==
    /\ last.kind = "download" /\ last.status = HTTP_OK
    /\ last.db_ids # <<>>
    /\ Len(db) >= 2

\* C19: in a run that started with an empty ledger, a group is skipped only
\* when every one of its ids is in the ledger record of its day.
C19_SkipOnlyRecorded ==
    (dbStart = <<>> /\ last.kind = "skip")
        => Range(last.ids) \subseteq LedgerIds(db, last.day)

\* The number of requested pages of this run that show items of day d: the
\* number of groups of day d the run is given.
GroupsOfDay(d) ==
    Cardinality({i \in DOMAIN requested :
        /\ requested[i].status = HTTP_OK
        /\ \E m \in Range(PageMedia(requested[i].page, requested[i].per_page)) :
              CapturedDay(m.captured_at) = d})

\* C20 as stated: a run issues at most as many listing requests as the page
\* count its first response reported, and at most one archive request for
\* each group of each requested page.
C20_RequestsWithinPageCount ==
    (requested # <<>> /\ requested[1].status = HTTP_OK)
        => /\ Len(requested) <= total_pages
           /\ \A d \in Days : fetched[d] <= GroupsOfDay(d)

\* The listing requests the loop of main() has still to issue.
PagesLeft == IF page + 1 < total_pages THEN total_pages - 1 - page ELSE 0

\* C20, amended: every run ends, because each step of a run either uses up
\* one of the listing requests left or leaves them and uses up one of the
\* groups of the page; the run issues the first listing request and, in all,
\* at most as many listing requests as the reported page count when that is
\* one or more; each group of each requested page is decided once and gets at
\* most one archive request.
C20_RunTerminatesBounded ==
    /\ [](Len(requested) <= (IF total_pages = 0 THEN 1 ELSE total_pages))
    /\ [](\A d \in Days : fetched[d] <= decided[d] /\ decided[d] <= GroupsOfDay(d))
    /\ [](Running => PagesLeft + Len(requested) <= (IF total_pages = 0 THEN 1 ELSE total_pages))
    /\ [][(Running /\ Running')
             => \/ PagesLeft' < PagesLeft
                \/ PagesLeft' = PagesLeft /\ Len(cohorts') < Len(cohorts)]_vars

\* a run that returned after several listing and archive requests
C20_Witness ==
    /\ pc = "returned"
    /\ Len(requested) >= 2
    /\ \E d \in Days : fetched[d] >= 2 /\ fetched[d] = GroupsOfDay(d)

====
